---- MODULE Spec2Model ----
(***************************************************************************)
(* TriggerQueue<T, Capacity, QueueType> of iceoryx_utils                   *)
(* (internal/concurrent/trigger_queue.hpp).                                *)
(*                                                                         *)
(* The header declares the class, its two members (m_queue and the atomic  *)
(* flag m_toBeDestroyed, initially false), CAPACITY and the documented     *)
(* contracts of push, pop, empty, size and capacity.  The bodies live in   *)
(* trigger_queue.inl, which is not part of the sources at hand, and the    *)
(* header declares neither blocking_pop nor a wake-up primitive.  What the *)
(* header documents (a push on a full queue returns false, inserts and     *)
(* notifies nothing; a successful push returns true and notifies one       *)
(* thread waiting in blocking_pop; pop hands out the oldest element if     *)
(* there is one) is taken from the header.  The rest, that is the flag     *)
(* read of push, the pending wake-up count, blocking_pop and the steps of  *)
(* destroy, is modelled from the design description (spec.md, sections     *)
(* 4.1, 4.2, 5 and 9).                                                     *)
(*                                                                         *)
(* Granularity: m_queue (a lock-free backend) and m_toBeDestroyed (a       *)
(* std::atomic_bool) are two independent shared objects and the class      *)
(* holds no mutex, so a read of the flag, one backend operation and one    *)
(* operation of the wake-up primitive are each one atomic step and         *)
(* nothing larger is.                                                      *)
(***************************************************************************)
EXTENDS Integers, Sequences, FiniteSets

(* ------------------------------ bounds --------------------------------- *)

NumThreads == 3

CAPACITY == 2

\* Elements the backend accepts during one run.
MaxPushes == 3

\* Calls of the single-threaded run.
MaxLog == 8

Threads == 1..NumThreads

\* The blocking layer never inspects an element, so elements are distinct
\* tokens, which makes "each element exactly once" observable.  A token is
\* named by the rank at which the backend accepted it.
Values == 1..MaxPushes

VARIABLES
    m_queue,          \* the backend's contents, oldest first
    m_toBeDestroyed,  \* the is-destroying flag
    wakeups,          \* pending wake-ups of the wake-up primitive
    blocked,          \* threads suspended in blocking_pop
    pc,               \* position of each thread inside its current call
    arg,              \* the element a push has stored and not yet notified (0: none)
    ret,              \* the last completed call: operation and result
    nInserted,        \* history: number of elements the backend has accepted
    taken,            \* history: the elements returned by pops, in order of return
    destroyDone,      \* history: some destroy() call has returned
    waiters,          \* history: threads that were suspended on an empty
                      \* backend when destroy() was first called and whose
                      \* blocking_pop has not returned yet
    atDestroy,        \* history: the backend's contents when destroy() was
                      \* first called
    log               \* history: the calls of a single-threaded run with
                      \* their results, in order of return

vars == <<m_queue, m_toBeDestroyed, wakeups, blocked, pc, arg, ret,
          nInserted, taken, destroyDone, waiters, atDestroy, log>>

(* ------------------------------ helpers -------------------------------- *)

Range(s) == {s[i] : i \in 1..Len(s)}

\* Pushes that have read the flag and not yet reached the backend.  A push
\* starts only while the run's elements are not used up, so that a push in
\* progress never waits for the bound.
Storing == Cardinality({t \in Threads : pc[t] = "push_queue"})

\* The element the next successful push stores.
NextValue == nInserted + 1

Returned(op, ok) == [op |-> op, ok |-> ok]

\* QueueAdapter<T, Capacity, Queue>::push, default strategy: the backend's
\* own push, which rejects on a full queue.
QueueAdapter_push(queue, in) ==
    IF Len(queue) < CAPACITY
        THEN [ok |-> TRUE, queue |-> Append(queue, in)]
        ELSE [ok |-> FALSE, queue |-> queue]

\* A try-pop that hands out the oldest element and leaves it stored.
Queue_pop_keeps(queue) ==
    IF queue # <<>>
        THEN [ok |-> TRUE, val |-> Head(queue), queue |-> queue]
        ELSE [ok |-> FALSE, val |-> 0, queue |-> queue]

\* A try-pop that removes the newest element.
Queue_pop_newest(queue) ==
    IF queue # <<>>
        THEN [ok |-> TRUE, val |-> queue[Len(queue)],
              queue |-> SubSeq(queue, 1, Len(queue) - 1)]
        ELSE [ok |-> FALSE, val |-> 0, queue |-> queue]

\* The backend's try-pop: the oldest element, if any.
Queue_pop(queue) ==
    IF queue # <<>>
        THEN [ok |-> TRUE, val |-> Head(queue), queue |-> Tail(queue)]
        ELSE [ok |-> FALSE, val |-> 0, queue |-> queue]

\* empty(), size(), capacity(): snapshots of the backend.
empty == m_queue = <<>>

size == Len(m_queue)

capacity == CAPACITY

(* ------------------------------- Init ---------------------------------- *)

\* A queue constructed with the flag already set.
Init_destroying ==
    /\ m_queue = <<>>
    /\ m_toBeDestroyed = TRUE
    /\ wakeups = 0
    /\ blocked = {}
    /\ pc = [t \in Threads |-> "idle"]
    /\ arg = [t \in Threads |-> 0]
    /\ ret = Returned("none", FALSE)
    /\ nInserted = 0
    /\ taken = <<>>
    /\ destroyDone = FALSE
    /\ waiters = {}
    /\ atDestroy = <<>>
    /\ log = <<>>

Init ==
    /\ m_queue = <<>>
    /\ m_toBeDestroyed = FALSE
    /\ wakeups = 0
    /\ blocked = {}
    /\ pc = [t \in Threads |-> "idle"]
    /\ arg = [t \in Threads |-> 0]
    /\ ret = Returned("none", FALSE)
    /\ nInserted = 0
    /\ taken = <<>>
    /\ destroyDone = FALSE
    /\ waiters = {}
    /\ atDestroy = <<>>
    /\ log = <<>>

(* ------------------------------- push ---------------------------------- *)

\* push, first step: the call starts and reads the flag.
PushCheck(t) ==
    /\ pc[t] = "idle"
    /\ m_toBeDestroyed \/ nInserted + Storing < MaxPushes
    /\ IF m_toBeDestroyed
          THEN /\ ret' = Returned("push", FALSE)
               /\ UNCHANGED pc
          ELSE /\ pc' = [pc EXCEPT ![t] = "push_queue"]
               /\ UNCHANGED ret
    /\ UNCHANGED <<arg, m_queue, m_toBeDestroyed, wakeups, blocked, nInserted,
                   taken, destroyDone, waiters>>
    /\ UNCHANGED atDestroy

\* A push that evicts the oldest element of a full backend and goes on to
\* notify.
PushQueue_overwrite(t) ==
    /\ pc[t] = "push_queue"
    /\ m_queue' = IF Len(m_queue) < CAPACITY
                     THEN Append(m_queue, NextValue)
                     ELSE Append(Tail(m_queue), NextValue)
    /\ pc' = [pc EXCEPT ![t] = "push_post"]
    /\ nInserted' = nInserted + 1
    /\ arg' = [arg EXCEPT ![t] = NextValue]
    /\ UNCHANGED <<ret, m_toBeDestroyed, wakeups, blocked, taken, destroyDone,
                   waiters>>
    /\ UNCHANGED atDestroy

\* A push that retries on a full backend instead of returning.
PushQueue_retry(t) ==
    /\ pc[t] = "push_queue"
    /\ LET r == QueueAdapter_push(m_queue, NextValue) IN
         /\ m_queue' = r.queue
         /\ IF r.ok
               THEN /\ pc' = [pc EXCEPT ![t] = "push_post"]
                    /\ nInserted' = nInserted + 1
                    /\ arg' = [arg EXCEPT ![t] = NextValue]
               ELSE UNCHANGED <<pc, arg, nInserted>>
    /\ UNCHANGED <<ret, m_toBeDestroyed, wakeups, blocked, taken, destroyDone,
                   waiters>>
    /\ UNCHANGED atDestroy

\* push, second step: the adapter's push on the backend.
PushQueue(t) ==
    /\ pc[t] = "push_queue"
    /\ LET r == QueueAdapter_push(m_queue, NextValue) IN
         /\ m_queue' = r.queue
         /\ IF r.ok
               THEN /\ pc' = [pc EXCEPT ![t] = "push_post"]
                    /\ nInserted' = nInserted + 1
                    /\ arg' = [arg EXCEPT ![t] = NextValue]
                    /\ UNCHANGED ret
               ELSE /\ pc' = [pc EXCEPT ![t] = "idle"]
                    /\ ret' = Returned("push", FALSE)
                    /\ UNCHANGED <<arg, nInserted>>
    /\ UNCHANGED <<m_toBeDestroyed, wakeups, blocked, taken, destroyDone,
                   waiters>>
    /\ UNCHANGED atDestroy

\* A post that wakes every suspended thread.
PostTargets_all(waiting) == {waiting}

\* The wake-up primitive's "post one signal": the sets of threads one post
\* may wake.  Exactly one suspended thread, or nobody when none is suspended
\* (the wake-up is then recorded as pending).
PostTargets(waiting) ==
    IF waiting = {} THEN {{}} ELSE {{w} : w \in waiting}

\* The pending count after a post that woke the threads W.
PostCount(count, W) ==
    IF W = {} THEN count + 1 ELSE count

\* A push that returns true without notifying anybody.
PushPost_silent(t) ==
    /\ pc[t] = "push_post"
    /\ pc' = [pc EXCEPT ![t] = "idle"]
    /\ ret' = Returned("push", TRUE)
    /\ arg' = [arg EXCEPT ![t] = 0]
    /\ UNCHANGED <<m_queue, m_toBeDestroyed, wakeups, blocked, nInserted,
                   taken, destroyDone, waiters>>
    /\ UNCHANGED atDestroy

\* push, third step: the notification, then return true.
PushPost(t) ==
    /\ pc[t] = "push_post"
    /\ \E W \in PostTargets(blocked) :
         /\ blocked' = blocked \ W
         /\ wakeups' = PostCount(wakeups, W)
         /\ pc' = [u \in Threads |->
                     IF u = t THEN "idle"
                     ELSE IF u \in W THEN "bp_take" ELSE pc[u]]
    /\ ret' = Returned("push", TRUE)
    /\ arg' = [arg EXCEPT ![t] = 0]
    /\ UNCHANGED <<m_queue, m_toBeDestroyed, nInserted, taken, destroyDone,
                   waiters>>
    /\ UNCHANGED atDestroy

(* -------------------------------- pop ---------------------------------- *)

\* A pop that refuses to hand out elements once destruction has begun.
Pop_refuses(t) ==
    /\ pc[t] = "idle"
    /\ LET r == IF m_toBeDestroyed
                   THEN [ok |-> FALSE, val |-> 0, queue |-> m_queue]
                   ELSE Queue_pop(m_queue) IN
         /\ m_queue' = r.queue
         /\ ret' = Returned("pop", r.ok)
         /\ taken' = IF r.ok THEN Append(taken, r.val) ELSE taken
    /\ UNCHANGED <<m_toBeDestroyed, wakeups, blocked, pc, arg, nInserted,
                   destroyDone, waiters, atDestroy>>

\* A pop that also consumes a pending wake-up.
Pop_claims(t) ==
    /\ pc[t] = "idle"
    /\ LET r == Queue_pop(m_queue) IN
         /\ m_queue' = r.queue
         /\ ret' = Returned("pop", r.ok)
         /\ taken' = IF r.ok THEN Append(taken, r.val) ELSE taken
         /\ wakeups' = IF r.ok /\ wakeups > 0 THEN wakeups - 1 ELSE wakeups
    /\ UNCHANGED <<m_toBeDestroyed, blocked, pc, arg, nInserted,
                   destroyDone, waiters>>
    /\ UNCHANGED atDestroy

\* pop: one try-pop on the backend; the wake-up primitive is not touched.
Pop(t) ==
    /\ pc[t] = "idle"
    /\ LET r == Queue_pop(m_queue) IN
         /\ m_queue' = r.queue
         /\ ret' = Returned("pop", r.ok)
         /\ taken' = IF r.ok THEN Append(taken, r.val) ELSE taken
    /\ UNCHANGED <<m_toBeDestroyed, wakeups, blocked, pc, arg, nInserted,
                   destroyDone, waiters>>
    /\ UNCHANGED atDestroy

(* ---------------------------- blocking_pop ----------------------------- *)

\* blocking_pop, check before the wait: the caller looks for data and for
\* the flag, finds neither and decides to sleep.  The decision is not the
\* suspension: other threads may run before the wait step.
BPObserve(t) ==
    /\ pc[t] = "idle"
    /\ empty
    /\ ~m_toBeDestroyed
    /\ pc' = [pc EXCEPT ![t] = "bp_sleep"]
    /\ UNCHANGED <<m_queue, m_toBeDestroyed, wakeups, blocked, arg, ret,
                   nInserted, taken, destroyDone, waiters, atDestroy>>

\* A wait that does not look at the flag.
WaitOutcome_noflag(destroying, count) ==
    IF count > 0 THEN "claimed" ELSE "suspend"

\* A wait that looks at the pending count before the flag.
WaitOutcome_countFirst(destroying, count) ==
    IF count > 0 THEN "claimed"
    ELSE IF destroying THEN "shutdown"
    ELSE "suspend"

\* The wake-up primitive's "wait for a pending signal or shutdown", one
\* atomic step: outcome for a caller given the flag and the pending count.
WaitOutcome(destroying, count) ==
    IF destroying THEN "shutdown"
    ELSE IF count > 0 THEN "claimed"
    ELSE "suspend"

\* blocking_pop, wait step: at the start of the call, after the decision to
\* sleep, after a wake-up that found the backend empty, and after being
\* woken by destroy().
BPWait(t) ==
    /\ pc[t] \in {"idle", "bp_sleep", "bp_wait"}
    /\ LET o == WaitOutcome(m_toBeDestroyed, wakeups) IN
         /\ pc' = [pc EXCEPT ![t] =
                      CASE o = "shutdown" -> "idle"
                        [] o = "claimed"  -> "bp_take"
                        [] o = "suspend"  -> "bp_blocked"]
         /\ wakeups' = IF o = "claimed" THEN wakeups - 1 ELSE wakeups
         /\ blocked' = IF o = "suspend" THEN blocked \cup {t} ELSE blocked
         /\ ret' = IF o = "shutdown"
                      THEN Returned("blocking_pop", FALSE)
                      ELSE ret
         /\ waiters' = IF o = "shutdown" THEN waiters \ {t} ELSE waiters
    /\ UNCHANGED <<m_queue, m_toBeDestroyed, arg, nInserted, taken,
                   destroyDone>>
    /\ UNCHANGED atDestroy

\* A take step that returns an empty result when the element is gone.
BPTake_givesUp(t) ==
    /\ pc[t] = "bp_take"
    /\ LET r == Queue_pop(m_queue) IN
         /\ m_queue' = r.queue
         /\ pc' = [pc EXCEPT ![t] = "idle"]
         /\ ret' = Returned("blocking_pop", r.ok)
         /\ taken' = IF r.ok THEN Append(taken, r.val) ELSE taken
         /\ waiters' = waiters \ {t}
    /\ UNCHANGED <<m_toBeDestroyed, wakeups, blocked, arg, nInserted,
                   destroyDone, atDestroy>>

\* blocking_pop, take step: the owner of a wake-up removes one element and
\* returns it; when the element is gone already it waits again.
BPTake(t) ==
    /\ pc[t] = "bp_take"
    /\ LET r == Queue_pop(m_queue) IN
         /\ m_queue' = r.queue
         /\ IF r.ok
               THEN /\ pc' = [pc EXCEPT ![t] = "idle"]
                    /\ ret' = Returned("blocking_pop", TRUE)
                    /\ taken' = Append(taken, r.val)
                    /\ waiters' = waiters \ {t}
               ELSE /\ pc' = [pc EXCEPT ![t] = "bp_wait"]
                    /\ UNCHANGED <<ret, taken, waiters>>
    /\ UNCHANGED <<m_toBeDestroyed, wakeups, blocked, arg, nInserted,
                   destroyDone>>
    /\ UNCHANGED atDestroy

(* ------------------------------ destroy -------------------------------- *)

\* A destroy whose first step flips the flag instead of setting it.
DestroyFlag_toggle(t) ==
    /\ pc[t] = "idle"
    /\ m_toBeDestroyed' = ~m_toBeDestroyed
    /\ pc' = [pc EXCEPT ![t] = "d_wake"]
    /\ waiters' = IF ~m_toBeDestroyed /\ m_queue = <<>>
                      THEN blocked
                      ELSE waiters
    /\ atDestroy' = IF ~m_toBeDestroyed THEN m_queue ELSE atDestroy
    /\ UNCHANGED <<m_queue, wakeups, blocked, arg, ret, nInserted, taken,
                   destroyDone>>

\* destroy, first step: the one-way transition of the flag.
DestroyFlag(t) ==
    /\ pc[t] = "idle"
    /\ m_toBeDestroyed' = TRUE
    /\ pc' = [pc EXCEPT ![t] = "d_wake"]
    /\ waiters' = IF ~m_toBeDestroyed /\ m_queue = <<>>
                      THEN blocked
                      ELSE waiters
    /\ atDestroy' = IF ~m_toBeDestroyed THEN m_queue ELSE atDestroy
    /\ UNCHANGED <<m_queue, wakeups, blocked, arg, ret, nInserted, taken,
                   destroyDone>>

\* The wake-up primitive's "post shutdown": the threads it wakes.
ShutdownTargets(waiting) == waiting

\* destroy, second step: every suspended thread is woken and runs its wait
\* step again, where it observes the flag.
DestroyWake(t) ==
    /\ pc[t] = "d_wake"
    /\ LET W == ShutdownTargets(blocked) IN
         /\ blocked' = blocked \ W
         /\ pc' = [u \in Threads |->
                     IF u = t THEN "idle"
                     ELSE IF u \in W THEN "bp_wait" ELSE pc[u]]
    /\ ret' = Returned("destroy", TRUE)
    /\ destroyDone' = TRUE
    /\ UNCHANGED <<m_queue, m_toBeDestroyed, wakeups, arg, nInserted, taken,
                   waiters>>
    /\ UNCHANGED atDestroy

(* --------------------------- specification ----------------------------- *)

\* Any thread may take the next step of any call; the log of the
\* single-threaded run is not kept.
Next ==
    \E t \in Threads :
        \/ PushCheck(t) /\ UNCHANGED log
        \/ PushQueue(t) /\ UNCHANGED log
        \/ PushPost(t) /\ UNCHANGED log
        \/ Pop(t) /\ UNCHANGED log
        \/ BPObserve(t) /\ UNCHANGED log
        \/ BPWait(t) /\ UNCHANGED log
        \/ BPTake(t) /\ UNCHANGED log
        \/ DestroyFlag(t) /\ UNCHANGED log
        \/ DestroyWake(t) /\ UNCHANGED log

Spec == Init /\ [][Next]_vars

\* The steps of a call in progress.  A running thread is scheduled again, so
\* a call in progress takes its next step unless it is suspended; nothing
\* obliges a thread to start a call.
Continue(t) ==
    /\ \/ PushQueue(t)
       \/ PushPost(t)
       \/ (pc[t] \in {"bp_sleep", "bp_wait"} /\ BPWait(t))
       \/ BPTake(t)
       \/ DestroyWake(t)
    /\ UNCHANGED log

FairSpec == Spec /\ \A t \in Threads : WF_vars(Continue(t))

(* ------------------------ single-threaded use -------------------------- *)

\* The one thread of the single-threaded run.
Caller == CHOOSE t \in Threads : TRUE

\* One returned call: push(val) with its boolean result, or pop() with the
\* element it returned (out), ok being false for an empty result.
LogEntry(op, val, ok, out) ==
    [op |-> op, val |-> val, ok |-> ok, out |-> out]

\* One thread calls push and pop one after the other, never destroy(), and
\* every call is logged when it returns.
SeqNext ==
    \/ /\ Len(log) < MaxLog
       /\ PushCheck(Caller)
       /\ log' = IF m_toBeDestroyed
                    THEN Append(log, LogEntry("push", NextValue, FALSE, 0))
                    ELSE log
    \/ /\ PushQueue(Caller)
       /\ log' = IF pc'[Caller] = "idle"
                    THEN Append(log, LogEntry("push", NextValue, FALSE, 0))
                    ELSE log
    \/ /\ PushPost(Caller)
       /\ log' = Append(log, LogEntry("push", arg[Caller], TRUE, 0))
    \/ /\ Len(log) < MaxLog
       /\ Pop(Caller)
       /\ log' = Append(log, LogEntry("pop", 0, ret'.ok,
                                      IF ret'.ok THEN taken'[Len(taken')]
                                                 ELSE 0))

SeqSpec == Init /\ [][SeqNext]_vars

TypeOK ==
    /\ m_queue \in Seq(Values) /\ Len(m_queue) <= CAPACITY
    /\ m_toBeDestroyed \in BOOLEAN
    /\ wakeups \in 0..Cardinality(Values)
    /\ blocked \subseteq Threads
    /\ pc \in [Threads -> {"idle", "push_queue", "push_post", "bp_sleep",
                           "bp_wait",
                           "bp_take", "bp_blocked", "d_wake"}]
    /\ arg \in [Threads -> Values \cup {0}]
    /\ nInserted \in 0..MaxPushes
    /\ destroyDone \in BOOLEAN
    /\ waiters \subseteq Threads
    /\ atDestroy \in Seq(Values)
    /\ Len(log) <= MaxLog
    /\ \A k \in 1..Len(log) :
          /\ log[k].op \in {"push", "pop"}
          /\ log[k].val \in Values \cup {0}
          /\ log[k].ok \in BOOLEAN
          /\ log[k].out \in Values \cup {0}

(* ------------------------- derived notions ----------------------------- *)

\* Threads whose push has stored its element and not yet notified.
Posting == {t \in Threads : pc[t] = "push_post"}

\* Threads in blocking_pop that own a wake-up and have not yet tried to
\* remove an element.
Claimed == {t \in Threads : pc[t] = "bp_take"}

\* Elements whose push has returned true.
Accepted == (1..nInserted) \ {arg[t] : t \in Posting}

\* No call is in progress: every thread is between calls or suspended.
Quiescent == \A t \in Threads : pc[t] \in {"idle", "bp_blocked"}

(* ------------------------------ claims --------------------------------- *)

\* C1 -- No data loss.  While destroy() has not been called: the elements
\* returned by pop and blocking_pop, in order of return, are strictly
\* increasing in the backend's acceptance order (each element at most once,
\* FIFO order, also per consumer, whose returns are a subsequence); every
\* element the backend accepted is either still stored or was returned, and
\* nothing else is; and once all pushes have returned and as many elements
\* were returned as pushes returned true, the returned elements are exactly
\* the pushed ones.
C1_NoDataLoss ==
    ~m_toBeDestroyed =>
        /\ \A i, j \in 1..Len(taken) : i < j => taken[i] < taken[j]
        /\ Range(taken) \cup Range(m_queue) = 1..nInserted
        /\ Range(taken) \cap Range(m_queue) = {}
        /\ (Posting = {} /\ Len(taken) = Cardinality(Accepted))
               => Range(taken) = Accepted

\* Three pushes returned true and three pops returned their elements, the
\* last of them a blocking_pop, without destroy().
C1_Witness ==
    /\ ~m_toBeDestroyed
    /\ Posting = {}
    /\ Cardinality(Accepted) = 3
    /\ Len(taken) = 3
    /\ ret = Returned("blocking_pop", TRUE)

\* A blocking_pop call of thread t starts in this step (the flag is false):
\* it either claims a pending wake-up or suspends.
StartsBlockingPop(t) ==
    /\ pc[t] = "idle"
    /\ pc'[t] \in {"bp_take", "bp_blocked"}

\* Some element whose push has returned true is still stored.
AcceptedStored == Accepted \cap Range(m_queue) # {}

BlockingPopReturns(t) ==
    /\ pc[t] \in {"bp_wait", "bp_take"}
    /\ pc'[t] = "idle"

\* C3 -- Destroy wakes all waiters: every thread that was suspended in
\* blocking_pop on an empty queue when destroy() was called eventually
\* returns, under fair scheduling; it returns an empty result; and once
\* destroy() has returned no thread is suspended in blocking_pop.
C3_DestroyWakesAll ==
    /\ \A t \in Threads : (t \in waiters) ~> (t \notin waiters)
    /\ [](destroyDone => blocked = {})
    /\ [][\A t \in waiters :
            BlockingPopReturns(t)
               => ret' = Returned("blocking_pop", FALSE)]_vars

\* The part of C3 that does not depend on what the woken threads return:
\* every waiter is released and none stays suspended after destroy().
DestroyReleasesWaiters ==
    /\ \A t \in Threads : (t \in waiters) ~> (t \notin waiters)
    /\ \A t \in Threads :
          (pc[t] = "bp_blocked" /\ m_toBeDestroyed) ~> (pc[t] = "idle")
    /\ [](destroyDone => blocked = {})

\* C4 -- Destroy rejects future pushes: a push call that starts after a
\* destroy() call has returned returns false at once, and from then on the
\* backend occupancy never increases.
C4_DestroyRejectsPushes ==
    /\ [][\A t \in Threads :
            (destroyDone /\ PushCheck(t))
               => (pc'[t] = "idle" /\ ret' = Returned("push", FALSE))]_vars
    /\ [][destroyDone => Len(m_queue') <= Len(m_queue)]_vars

\* C5 -- Once is-destroying is true no element is added to the backend,
\* also not by a push that read the flag before it was set.
C5_NoInsertWhileDestroying ==
    [][m_toBeDestroyed => (nInserted' = nInserted
                            /\ Len(m_queue') <= Len(m_queue))]_vars

\* C6 -- At-most-one delivery: no element is returned by two pop or
\* blocking_pop calls, with or without destroy(); every returned element was
\* accepted by the backend and is no longer stored; and while a blocking_pop
\* owns the wake-up of a push, the other suspended threads stay suspended.
C6_AtMostOneDelivery ==
    /\ \A i, j \in 1..Len(taken) : i # j => taken[i] # taken[j]
    /\ Range(taken) \subseteq 1..nInserted
    /\ Range(taken) \cap Range(m_queue) = {}
    /\ Len(taken) + Len(m_queue) = nInserted
    /\ \A t \in blocked : pc[t] = "bp_blocked"
    /\ \A t \in Claimed : t \notin blocked

\* One element was pushed, one blocking_pop returned it and another
\* consumer is still suspended.
C6_Witness ==
    /\ ~m_toBeDestroyed
    /\ nInserted = 1
    /\ taken = <<1>>
    /\ ret = Returned("blocking_pop", TRUE)
    /\ blocked # {}
    /\ wakeups = 0

\* The push of thread t meets the backend in this step and is rejected.
PushRejected(t) ==
    /\ pc[t] = "push_queue"
    /\ pc'[t] = "idle"

\* C7 -- A push on a full reject-on-full backend returns false and changes
\* nothing: neither the backend nor the pending wake-ups nor the suspended
\* threads nor any other thread's position.
C7_PushOnFull ==
    [][\A t \in Threads :
          (pc[t] = "push_queue" /\ pc'[t] # "push_queue"
                                /\ Len(m_queue) = CAPACITY)
             => /\ PushRejected(t)
                /\ ret' = Returned("push", FALSE)
                /\ UNCHANGED <<m_queue, nInserted, wakeups, blocked, taken,
                               m_toBeDestroyed>>
                /\ \A u \in Threads \ {t} : pc'[u] = pc[u]]_vars

\* The backend is full and the last completed call is a push that returned
\* false although the queue is not being destroyed.
C7_Witness ==
    /\ ~m_toBeDestroyed
    /\ Len(m_queue) = CAPACITY
    /\ ret = Returned("push", FALSE)

\* Steps a push still has to take from a position.
PushRank(p) ==
    CASE p = "push_queue" -> 2
      [] p = "push_post"  -> 1
      [] OTHER            -> 0

\* C8 -- Push never blocks: in every state a push in progress can take a
\* step that moves it on, whatever the other threads do and also on a full
\* backend that nobody pops; and each of its steps lowers the number of
\* steps left, so that it returns after at most three steps of its own.
C8_PushNeverBlocks ==
    /\ [](\A t \in Threads :
            /\ pc[t] = "push_queue"
                  => ENABLED <<PushQueue(t) /\ UNCHANGED log>>_vars
            /\ pc[t] = "push_post"
                  => ENABLED <<PushPost(t) /\ UNCHANGED log>>_vars)
    /\ [][\A t \in Threads :
            (PushCheck(t) \/ PushQueue(t) \/ PushPost(t))
               => PushRank(pc'[t]) < (IF pc[t] = "idle" THEN 3
                                                       ELSE PushRank(pc[t]))]_vars

\* Under fair scheduling every push in progress returns.
PushReturns ==
    \A t \in Threads :
        (pc[t] \in {"push_queue", "push_post"}) ~> (pc[t] = "idle")

\* A push is about to meet a full backend while no other call is in
\* progress, nobody pops and the queue is not being destroyed.
C8_Witness ==
    /\ ~m_toBeDestroyed
    /\ Len(m_queue) = CAPACITY
    /\ Cardinality({t \in Threads : pc[t] = "push_queue"}) = 1
    /\ \A t \in Threads : pc[t] \in {"idle", "push_queue"}

\* C9 -- A push that returns true changes the wake-up state by exactly one:
\* with a suspended thread, exactly one of them is woken and the pending
\* count stays; with none, the pending count grows by one.  A push that
\* returns false changes neither the pending count nor the suspended set.
C9_PushWakesOne ==
    [][\A t \in Threads :
          /\ (pc[t] = "push_post" /\ pc'[t] = "idle")
                => /\ ret' = Returned("push", TRUE)
                   /\ IF blocked # {}
                         THEN /\ \E w \in blocked :
                                    /\ blocked' = blocked \ {w}
                                    /\ pc'[w] = "bp_take"
                              /\ wakeups' = wakeups
                         ELSE /\ wakeups' = wakeups + 1
                              /\ blocked' = blocked
          /\ (PushRejected(t) \/ (PushCheck(t) /\ m_toBeDestroyed))
                => /\ ret' = Returned("push", FALSE)
                   /\ wakeups' = wakeups
                   /\ blocked' = blocked]_vars

\* A push returned true while two threads were suspended: one of them owns
\* the wake-up, the other is still suspended, and nothing is pending.
C9_Witness ==
    /\ ret = Returned("push", TRUE)
    /\ Cardinality(Claimed) = 1
    /\ blocked # {}
    /\ wakeups = 0
    /\ m_queue # <<>>

\* C10 -- Wake-up count invariant: whenever no call is in progress, the
\* pending wake-ups are not fewer than the stored elements, and none is
\* pending when the backend is empty.
C10_WakeupCount ==
    Quiescent =>
        /\ wakeups >= Len(m_queue)
        /\ (m_queue = <<>> => wakeups = 0)

\* The half of C10 that holds: no wake-up is missing when no call is in
\* progress.
NoMissingWakeup == Quiescent => wakeups >= Len(m_queue)

C12_PopFrame ==
    [][\A t \in Threads :
          Pop(t)
             => /\ IF m_queue # <<>>
                      THEN /\ ret' = Returned("pop", TRUE)
                           /\ taken' = Append(taken, Head(m_queue))
                           /\ m_queue' = Tail(m_queue)
                      ELSE /\ ret' = Returned("pop", FALSE)
                           /\ UNCHANGED <<m_queue, taken>>
                /\ pc' = pc
                /\ blocked' = blocked
                /\ wakeups' = wakeups
                /\ m_toBeDestroyed' = m_toBeDestroyed
                /\ nInserted' = nInserted]_vars

\* A pop has removed the only element while its wake-up is still pending.
C12_Witness ==
    /\ ret = Returned("pop", TRUE)
    /\ m_queue = <<>>
    /\ taken # <<>>
    /\ wakeups = Len(taken)
    /\ \A t \in Threads : pc[t] = "idle"

\* C13 -- In the Destroying state the non-blocking pop still drains the
\* queue: a pop made while the flag is true returns the oldest stored element
\* when there is one and an empty result otherwise, and the elements the
\* backend held when destroy() was called leave it in FIFO order ahead of
\* anything stored later, so m pops return those m elements in order and the
\* next pop on the emptied backend returns empty.
Undrained ==
    SelectSeq(atDestroy, LAMBDA v : v \notin Range(taken))

C14_IdempotentDestroy ==
    [][\A t \in Threads :
          (destroyDone /\ (DestroyFlag(t) \/ DestroyWake(t)))
             => /\ UNCHANGED <<m_toBeDestroyed, m_queue, wakeups, blocked,
                               taken, nInserted>>
                /\ m_toBeDestroyed'
                /\ \A u \in Threads \ {t} : pc'[u] = pc[u]
                /\ DestroyWake(t) => ret' = Returned("destroy", TRUE)]_vars

\* A destroy() call is past its first step after another one has finished,
\* with elements still stored and wake-ups still pending.
C14_Witness ==
    /\ destroyDone
    /\ \E t \in Threads : pc[t] = "d_wake"
    /\ m_queue # <<>>
    /\ wakeups > 0

\* C15 -- The is-destroying flag is monotonic: it starts false, no step of
\* any operation takes it from true to false, and the only step that changes
\* it is the first step of destroy().
C15_FlagMonotonic ==
    /\ ~m_toBeDestroyed
    /\ [][m_toBeDestroyed => m_toBeDestroyed']_vars
    /\ [][m_toBeDestroyed' # m_toBeDestroyed
            => \E t \in Threads : DestroyFlag(t)]_vars

\* The flag is still true after destroy() finished, a pop emptied the backend
\* and a push was turned away.
C15_Witness ==
    /\ m_toBeDestroyed
    /\ destroyDone
    /\ taken # <<>>
    /\ m_queue = <<>>
    /\ ret = Returned("push", FALSE)
    /\ \A t \in Threads : pc[t] = "idle"

\* The bounded FIFO of capacity CAPACITY with reject-on-full: its contents
\* after the first k logged calls.
RECURSIVE RefQueue(_)
RefQueue(k) ==
    IF k = 0 THEN <<>>
    ELSE LET q == RefQueue(k - 1)
             e == log[k]
         IN  IF e.op = "push"
                THEN IF Len(q) < CAPACITY THEN Append(q, e.val) ELSE q
                ELSE IF q # <<>> THEN Tail(q) ELSE q

\* The reference scenario's calls and the results it states.
ScenarioCalls ==
    <<[op |-> "push", val |-> 1], [op |-> "push", val |-> 2],
      [op |-> "push", val |-> 3], [op |-> "pop", val |-> 0],
      [op |-> "push", val |-> 3], [op |-> "pop", val |-> 0],
      [op |-> "pop", val |-> 0], [op |-> "pop", val |-> 0]>>

ScenarioResults ==
    <<[ok |-> TRUE, out |-> 0], [ok |-> TRUE, out |-> 0],
      [ok |-> FALSE, out |-> 0], [ok |-> TRUE, out |-> 1],
      [ok |-> TRUE, out |-> 0], [ok |-> TRUE, out |-> 2],
      [ok |-> TRUE, out |-> 3], [ok |-> FALSE, out |-> 0]>>

\* The calls logged so far are the first k calls of the scenario.
FollowsScenario(k) ==
    /\ k <= Len(ScenarioCalls)
    /\ \A i \in 1..k :
          [op |-> log[i].op, val |-> log[i].val] = ScenarioCalls[i]

\* C16 -- Single-threaded push/pop without destroy() behaves as a bounded
\* FIFO with reject-on-full: every logged push returned true exactly when
\* the occupancy before it was below the capacity, every logged pop returned
\* the oldest stored element or, on an empty queue, an empty result; and for
\* capacity 2 the calls push(1), push(2), push(3), pop(), push(3), pop(),
\* pop(), pop() return true, true, false, 1, true, 2, 3, empty.
C16_SequentialBoundedFifo ==
    /\ \A k \in 1..Len(log) :
          LET q == RefQueue(k - 1)
              e == log[k]
          IN  /\ e.op = "push" => (e.ok <=> Len(q) < CAPACITY)
              /\ e.op = "pop"
                    => IF q = <<>> THEN ~e.ok /\ e.out = 0
                                   ELSE e.ok /\ e.out = Head(q)
    /\ pc[Caller] = "idle" => m_queue = RefQueue(Len(log))
    /\ CAPACITY = 2
          => \A k \in 1..Len(log) :
                FollowsScenario(k)
                   => [ok |-> log[k].ok, out |-> log[k].out]
                         = ScenarioResults[k]

\* The whole scenario has been run.
C16_Witness ==
    /\ Len(log) = Len(ScenarioCalls)
    /\ FollowsScenario(Len(log))
    /\ pc[Caller] = "idle"

\* C17 -- Destroy-vs-wait race: a consumer that has seen "no data, not
\* destroying" and reaches its wait step after destroy() set the flag does
\* not suspend but returns an empty result there; that wait step can always
\* be taken; and in no state has destroy() finished while a thread is still
\* suspended in blocking_pop, so nobody stays suspended forever.
C17_DestroyVsWait ==
    /\ [](destroyDone => m_toBeDestroyed /\ blocked = {})
    /\ [](\A t \in Threads :
            pc[t] = "bp_sleep" => ENABLED <<BPWait(t) /\ UNCHANGED log>>_vars)
    /\ [][\A t \in Threads :
            (pc[t] = "bp_sleep" /\ m_toBeDestroyed /\ BPWait(t))
               => /\ pc'[t] = "idle"
                  /\ t \notin blocked'
                  /\ ret' = Returned("blocking_pop", FALSE)]_vars

\* Under fair scheduling a consumer that decided to sleep before destroy()
\* ran has its call returned.
SleeperReleased ==
    \A t \in Threads :
        (pc[t] = "bp_sleep" /\ m_toBeDestroyed) ~> (pc[t] = "idle")

\* destroy() has run from start to finish while a consumer that had decided
\* to sleep has not yet reached its wait step.
C17_Witness ==
    /\ destroyDone
    /\ \E t \in Threads : pc[t] = "bp_sleep"
    /\ blocked = {}
    /\ wakeups = 0

\* A step on which a blocking_pop call returns.
BPReturn(t) ==
    /\ BPWait(t) \/ BPTake(t)
    /\ pc'[t] = "idle"

\* C18 -- While is-destroying is false, blocking_pop never returns an empty
\* result: a blocking_pop that returns then has removed the oldest element
\* and returns it, an empty result of blocking_pop is only ever recorded
\* with the flag true, and a consumer whose wake-up finds the backend empty
\* (its element was taken by pop) goes back to its wait step instead of
\* returning.
C18_NoEmptyBeforeDestroy ==
    /\ [](ret = Returned("blocking_pop", FALSE) => m_toBeDestroyed)
    /\ [][\A t \in Threads :
            (~m_toBeDestroyed /\ BPReturn(t))
               => /\ ret' = Returned("blocking_pop", TRUE)
                  /\ m_queue # <<>>
                  /\ m_queue' = Tail(m_queue)
                  /\ taken' = Append(taken, Head(m_queue))]_vars
    /\ [][\A t \in Threads :
            (BPTake(t) /\ m_queue = <<>>)
               => /\ pc'[t] = "bp_wait"
                  /\ UNCHANGED <<ret, taken, m_queue>>]_vars

\* Without destroy(), a consumer is back at its wait step: the element of
\* the wake-up it owned had been taken by pop.
C18_Witness ==
    /\ ~m_toBeDestroyed
    /\ \E t \in Threads : pc[t] = "bp_wait"
    /\ ret = Returned("pop", TRUE)
    /\ m_queue = <<>>

\* C19 -- Occupancy bound: in every state size() is within [0, capacity()]
\* and equals the number of elements the backend accepted minus the number
\* of populated results of pop and blocking_pop; when no call is in
\* progress that is the number of pushes that returned true minus the
\* populated pops, and empty() is true exactly when it is 0.
C19_Occupancy ==
    /\ size \in 0..capacity
    /\ size = nInserted - Len(taken)
    /\ empty <=> size = 0
    /\ Quiescent
          => /\ size = Cardinality(Accepted) - Len(taken)
             /\ empty <=> Cardinality(Accepted) = Len(taken)

\* No call is in progress and the backend is full again after a pop made
\* room for the last accepted element.
C19_Witness ==
    /\ Quiescent
    /\ size = capacity
    /\ taken # <<>>
    /\ nInserted = MaxPushes

====
